---- MODULE Spec2Model ----
(***************************************************************************)
(* elwms: a browser-side wrapper around sqlite-wasm behind web workers.    *)
(*                                                                         *)
(* The repository holds several drafts of the same idea:                   *)
(*   - the worker                      src/src/sqlite/sqliteWorker.js      *)
(*   - the handler-swapping main side  src/unnamed/part_000      (H_...)   *)
(*     (createDB/executeQuery install worker.onmessage per call)           *)
(*   - the timestamp-keyed main side   src/src/sqlite/index.js   (T_...)   *)
(*     (returnValues mapping polled with zero-delay timers)                *)
(*   - the README pooled worker        src/README.md 225-278     (P_...)   *)
(* Both main sides construct their workers from ./sqliteWorker.js.         *)
(***************************************************************************)
EXTENDS Integers, Sequences, FiniteSets, TLC

\* ------------------------------------------------------------------ bounds
\* main-side API calls made in one run
MaxCalls == 3
\* runQuery messages handled by the README pooled worker in one run
MaxQueries == 3
\* executeQuery calls made on the README worker pool in one run
MaxJobs == 6
\* characters of a statement given to the placeholder substitution
MaxLen == 4

\* ------------------------------------------------------- program constants
MAX_POOL_SIZE == 4
WORKER_COUNT == 4

\* ------------------------------------------------------------ value space
Names == {"default", "x"}

\* A file name, given by its dot-separated parts: "x.sqlite3" is <<"x","sqlite3">>.
FileNames == { <<"x", "sqlite3">>, <<"default", "sqlite3">>, <<"x", "txt">>, <<"x">> }

\* SQL text is a sequence of one-character strings; the values of a query are
\* a sequence of such texts, or absent (the property is undefined).
Texts == { <<"a">>, <<"$", "1">> }
ValueLists == { [present |-> FALSE, items |-> <<>>],
                [present |-> TRUE, items |-> << <<"v">> >>] }

NoText == <<>>
NoFile == <<>>
NoValue == [kind |-> "none", sql |-> NoText, req |-> 0]
NoSubstitution ==
    [done |-> FALSE, text |-> NoText, values |-> [present |-> FALSE, items |-> <<>>],
     query |-> NoText, sync |-> NoText]

VARIABLES
    host,          \* the browser window the module is imported in: [Worker, initOK]
    modulePc,      \* "loading" until the module body has run, then "loaded" ("threw")
    publicAPI,     \* the default export: "empty" ({}) or "api"
    errors,        \* what was printed with console.error, main side and workers
    workers,       \* the registry `workers`: name -> its Worker (the k-th constructed), 0 for none
    nCreated,      \* Worker objects constructed so far
    terminated,    \* the Worker objects terminated so far (their numbers)
    onmessage,     \* H: worker.onmessage of the registered worker, per name
    onerror,       \* H: worker.onerror of the registered worker, per name
    returnValues,  \* T: the mapping returnValues, as a set of [timestamp, result]
    instance,      \* worker: `instance`, 0 for null, k for the k-th database opened
    nOpened,       \* worker: databases opened so far, per name
    inbox,         \* messages posted to each worker, not yet handled
    tasks,         \* worker: handlers suspended in await createDatabase/uploadDatabase
    outbox,        \* messages each worker posted, not yet delivered to the main side
    handled,       \* history: what the worker did with each request
    channel,       \* what was posted on the 'download_channel' BroadcastChannel
    calls,         \* history of the main-side calls, with the state of their promise
    dbPool,        \* P: the array dbPool, a sequence of database ids
    nDb,           \* P: databases created by createDbInstance so far
    dbRows,        \* P: the rows of table users in each database created
    closed,        \* P: the databases closed by releaseDbConnection
    queries,       \* P: the runQuery calls: where each stands and what it holds
    wpWorkers,     \* WP: the array `workers` of the README worker pool
    wpQueries,     \* WP: history of the executeQuery calls of the README worker pool
    substituted    \* R: the last statement and values substituted, and the texts produced

mainVars == <<host, modulePc, publicAPI, errors, workers, nCreated, terminated,
              onmessage, onerror, returnValues, calls, channel>>
workerVars == <<instance, nOpened, inbox, tasks, outbox, handled>>
poolVars == <<dbPool, nDb, dbRows, closed, queries>>
wpVars == <<wpWorkers, wpQueries>>

\* ---------------------------------------------------------------- helpers
NoHandler == [kind |-> "none", call |-> 0]

Msg(action, name, sql, call) ==
    [action |-> action, name |-> name, sql |-> sql, call |-> call, timestamp |-> 0]

\* One main-side call: its arguments, the state of its promise ("returned" or
\* "threw" for a plain function), the messages it posted, whether it registered
\* a worker, and, as the call was made, whether the name was registered and
\* whether that worker held a database.
Call(op, name, sql, file, state, value, posted, registered) ==
    [op |-> op, name |-> name, sql |-> sql, file |-> file, state |-> state,
     value |-> value, posted |-> posted, registered |-> registered,
     taken |-> IF name \in Names THEN workers[name] # 0 ELSE FALSE,
     hasDb |-> IF name \in Names THEN instance[name] # 0 ELSE FALSE]

\* The identifiers bound in the scope of each module (imports, top-level
\* declarations); a reference to any other identifier throws a ReferenceError.
WorkerScope ==
    {"sqlite3InitModule", "log", "error", "instance", "onmessage", "getInstance",
     "createDatabase", "uploadDatabase", "postMessage", "Blob", "setTimeout"}

T_ModuleScope ==
    {"sqlite3InitModule", "log", "error", "workers", "publicAPI", "returnValues",
     "initalizeWorker", "api", "executeQuery", "executeQuerySync", "window",
     "console", "Worker", "BroadcastChannel", "structuredClone", "setTimeout"}

\* ----------------------------------------------------- string operations
\* s.indexOf(p) != -1
RECURSIVE Contains(_, _)
Contains(s, p) ==
    IF Len(p) > Len(s) THEN FALSE
    ELSE IF SubSeq(s, 1, Len(p)) = p THEN TRUE
    ELSE Contains(Tail(s), p)

\* s.replace(p, r) for a string pattern p: the first occurrence only.
RECURSIVE ReplaceFirst(_, _, _)
ReplaceFirst(s, p, r) ==
    IF Len(p) > Len(s) THEN s
    ELSE IF SubSeq(s, 1, Len(p)) = p THEN r \o SubSeq(s, Len(p) + 1, Len(s))
    ELSE <<Head(s)>> \o ReplaceFirst(Tail(s), p, r)

\* String(index + 1), for the indexes the model uses
Digits(n) ==
    IF n < 10 THEN <<ToString(n)>> ELSE <<ToString(n \div 10), ToString(n % 10)>>

\* values.forEach(replacePlaceholder), from item number i on
RECURSIVE ReplaceFrom(_, _, _)
ReplaceFrom(sql, values, i) ==
    IF i > Len(values) THEN sql
    ELSE ReplaceFrom(ReplaceFirst(sql, <<"$">> \o Digits(i), <<"'">> \o values[i] \o <<"'">>),
                     values, i + 1)

\* if (values && sql.indexOf("$") != -1) values.forEach(replacePlaceholder)
replacePlaceholders(sql, values) ==
    IF values.present /\ Contains(sql, <<"$">>)
    THEN ReplaceFrom(sql, values.items, 1)
    ELSE sql

\* ------------------------------------------------------ module evaluation
\* if (window.Worker) { try { await sqlite3InitModule(...); publicAPI = api }
\*   catch (err) { error('Initialization error:', ...) } }
\* else console.error("Your browser doesn't support web workers.")
\* export default publicAPI
\* A variant of ModuleBody (below) with `publicAPI = api` placed before the
\* await of sqlite3InitModule; C8_ExportIffReady tells the two apart.
ModuleBody_AssignBeforeAwait(h) ==
    IF h.Worker
    THEN [pc |-> "loaded", api |-> "api",
          printed |-> IF h.initOK THEN {} ELSE {"Initialization error"}]
    ELSE [pc |-> "loaded", api |-> "empty", printed |-> {"no web workers"}]

\* The module body after the imports and declarations: where evaluation ends,
\* what publicAPI holds when `export default publicAPI` is reached, and what
\* was printed with console.error.
ModuleBody(h) ==
    IF h.Worker
    THEN IF h.initOK
         THEN [pc |-> "loaded", api |-> "api", printed |-> {}]
         ELSE [pc |-> "loaded", api |-> "empty", printed |-> {"Initialization error"}]
    ELSE [pc |-> "loaded", api |-> "empty", printed |-> {"no web workers"}]

ModuleInit ==
    /\ modulePc = "loading"
    /\ modulePc' = ModuleBody(host).pc
    /\ publicAPI' = ModuleBody(host).api
    /\ errors' = errors \cup ModuleBody(host).printed
    /\ UNCHANGED <<host, workers, nCreated, terminated, onmessage, onerror,
                   returnValues, calls, channel>>
    /\ UNCHANGED workerVars
    /\ UNCHANGED <<poolVars, wpVars, substituted>>

\* ------------------------------------------------------------ the worker
\* case 'executeQuery': const db = await getInstance(1)
Tries == 1

\* const checkAgain = function (tries) { let tryCount = 0; ... }: one call of
\* it, with the arguments args (<<>> for a call without arguments). An
\* undefined `tries` makes `tries > tryCount++` false.
checkAgain(args, inst) ==
    LET tryCount == 0 IN
    IF inst # 0
    THEN [outcome |-> "resolve", rechecks |-> 0]
    ELSE IF Len(args) > 0 /\ args[1] > tryCount
         THEN [outcome |-> "timer", rechecks |-> 1]
         ELSE [outcome |-> "reject", rechecks |-> 0]

\* getInstance(tries): the executor ends with `checkAgain();`, which does not
\* pass `tries` on, and setTimeout(checkAgain, 0) passes no argument either.
getInstance(tries, inst) ==
    checkAgain(<<>>, inst)

\* case 'downloadDB': sqlite3.capi.sqlite3_js_db_export(db) inside try/catch.
\* What the export itself does is the library's matter (a Blob, or SQLITE_NOMEM).
DownloadOutcomes ==
    IF "sqlite3" \in WorkerScope /\ "db" \in WorkerScope
    THEN {"blob", "SQLITE_NOMEM", "Error"}
    ELSE {"ReferenceError"}

Reply(type, result, req, err) ==
    [type |-> type, result |-> result, req |-> req, error |-> err]

\* case 'executeQuery' once a call of checkAgain has returned g, after
\* `before` re-checks were scheduled: the promise of getInstance is resolved
\* (db.exec runs and the result is posted, or db.exec throws), rejected, or
\* a zero-delay timer is pending. `handled` records how getInstance ended.
AfterCheck(n, call, sql, g, before) ==
    CASE g.outcome = "reject" ->
           /\ handled' = handled \cup
                {[call |-> call, action |-> "executeQuery", outcome |-> "no instance"],
                 [call |-> call, action |-> "getInstance", outcome |-> "reject",
                  rechecks |-> before + g.rechecks]}
           /\ tasks' = [tasks EXCEPT ![n] = {t \in @ : t.call # call}]
           /\ UNCHANGED <<outbox, errors>>
      [] g.outcome = "resolve" ->
           \E ok \in BOOLEAN :
             /\ IF ok
                THEN outbox' = [outbox EXCEPT ![n] =
                       Append(@, Reply("application/json", sql, call, ""))]
                ELSE UNCHANGED outbox
             /\ handled' = handled \cup
                  {[call |-> call, action |-> "executeQuery",
                    outcome |-> IF ok THEN "replied" ELSE "exec threw"],
                   [call |-> call, action |-> "getInstance", outcome |-> "resolve",
                    rechecks |-> before + g.rechecks]}
             /\ tasks' = [tasks EXCEPT ![n] = {t \in @ : t.call # call}]
             /\ UNCHANGED errors
      [] OTHER ->
           /\ tasks' = [tasks EXCEPT ![n] = {t \in @ : t.call # call} \cup
                          {[action |-> "checkAgain", call |-> call, sql |-> sql,
                            rechecks |-> before + g.rechecks]}]
           /\ UNCHANGED <<outbox, handled, errors>>

\* onmessage, up to the first await that waits for the library. The handler
\* is an async function: what it throws (getInstance rejecting, db.exec
\* throwing) rejects the promise it returns, which nobody handles; a rejected
\* promise raises no error event on the Worker object, so worker.onerror on the
\* main side is not called. Handling an executeQuery message takes no step
\* of the library's that other messages could interleave with.
WorkerReceive(n) ==
    /\ inbox[n] # <<>>
    /\ LET m == Head(inbox[n]) IN
       /\ inbox' = [inbox EXCEPT ![n] = Tail(@)]
       /\ CASE m.action = "createDB" ->
                /\ tasks' = [tasks EXCEPT ![n] = @ \cup {[action |-> "createDB", call |-> m.call]}]
                /\ UNCHANGED <<outbox, handled, errors>>
            [] m.action = "uploadDB" ->
                /\ tasks' = [tasks EXCEPT ![n] = @ \cup {[action |-> "uploadDB", call |-> m.call]}]
                /\ UNCHANGED <<outbox, handled, errors>>
            [] m.action = "downloadDB" ->
                \E o \in DownloadOutcomes :
                  /\ CASE o = "blob" ->
                            /\ outbox' = [outbox EXCEPT ![n] =
                                 Append(@, Reply("application/vnd.sqlite3", NoText, m.call, ""))]
                            /\ UNCHANGED errors
                       [] o = "SQLITE_NOMEM" ->
                            /\ outbox' = [outbox EXCEPT ![n] =
                                 Append(@, Reply("application/vnd.sqlite3", NoText, m.call, "SQLITE_NOMEM"))]
                            /\ UNCHANGED errors
                       [] OTHER ->
                            /\ errors' = errors \cup {"worker: " \o o}
                            /\ UNCHANGED outbox
                  /\ handled' = handled \cup {[call |-> m.call, action |-> m.action, outcome |-> o]}
                  /\ UNCHANGED tasks
            [] m.action = "executeQuery" ->
                AfterCheck(n, m.call, m.sql, getInstance(Tries, instance[n]), 0)
            [] OTHER ->
                /\ handled' = handled \cup {[call |-> m.call, action |-> m.action, outcome |-> "logged"]}
                /\ UNCHANGED <<outbox, tasks, errors>>
    /\ UNCHANGED <<instance, nOpened>>
    /\ UNCHANGED <<host, modulePc, publicAPI, workers, nCreated, terminated,
                   onmessage, onerror, returnValues, calls, channel>>
    /\ UNCHANGED <<poolVars, wpVars, substituted>>

\* A variant of WorkerFinish (below) that assigns `instance` before looking
\* at what createDatabase/uploadDatabase yielded (instance = undefined when
\* they failed); C20_FailureKeepsInstance tells the two apart.
WorkerFinish_AssignFirst(n) ==
    \E t \in tasks[n], ok \in BOOLEAN :
      /\ t.action \in {"createDB", "uploadDB"}
      /\ tasks' = [tasks EXCEPT ![n] = @ \ {t}]
      /\ IF ok
         THEN /\ nOpened' = [nOpened EXCEPT ![n] = @ + 1]
              /\ instance' = [instance EXCEPT ![n] = nOpened[n] + 1]
              /\ UNCHANGED errors
         ELSE /\ errors' = errors \cup {"worker: " \o t.action \o " failed"}
              /\ instance' = [instance EXCEPT ![n] = 0]
              /\ UNCHANGED nOpened
      /\ handled' = handled \cup
           {IF ok
            THEN [call |-> t.call, action |-> t.action, outcome |-> "opened"]
            ELSE [call |-> t.call, action |-> t.action, outcome |-> "failed",
                  worker |-> n, instance |-> instance[n]]}
      /\ UNCHANGED <<inbox, outbox>>
      /\ UNCHANGED <<host, modulePc, publicAPI, workers, nCreated, terminated,
                     onmessage, onerror, returnValues, calls, channel>>
      /\ UNCHANGED <<poolVars, wpVars, substituted>>

\* const { db, message } = await createDatabase(name); instance = db
\* (likewise uploadDatabase): the promise settles. When the library fails the
\* .catch prints the error and yields undefined, and the destructuring throws
\* before `instance` is assigned. The record of a failure keeps, as history,
\* the instance the worker held.
WorkerFinish(n) ==
    \E t \in tasks[n], ok \in BOOLEAN :
      /\ t.action \in {"createDB", "uploadDB"}
      /\ tasks' = [tasks EXCEPT ![n] = @ \ {t}]
      /\ IF ok
         THEN /\ nOpened' = [nOpened EXCEPT ![n] = @ + 1]
              /\ instance' = [instance EXCEPT ![n] = nOpened[n] + 1]
              /\ UNCHANGED errors
         ELSE /\ errors' = errors \cup {"worker: " \o t.action \o " failed"}
              /\ UNCHANGED <<instance, nOpened>>
      /\ handled' = handled \cup
           {IF ok
            THEN [call |-> t.call, action |-> t.action, outcome |-> "opened"]
            ELSE [call |-> t.call, action |-> t.action, outcome |-> "failed",
                  worker |-> n, instance |-> instance[n]]}
      /\ UNCHANGED <<inbox, outbox>>
      /\ UNCHANGED <<host, modulePc, publicAPI, workers, nCreated, terminated,
                     onmessage, onerror, returnValues, calls, channel>>
      /\ UNCHANGED <<poolVars, wpVars, substituted>>

\* The zero-delay timer set by checkAgain fires: checkAgain runs again,
\* without an argument.
WorkerTimer(n) ==
    \E t \in tasks[n] :
      /\ t.action = "checkAgain"
      /\ AfterCheck(n, t.call, t.sql, checkAgain(<<>>, instance[n]), t.rechecks)
      /\ UNCHANGED <<instance, nOpened, inbox>>
      /\ UNCHANGED <<host, modulePc, publicAPI, workers, nCreated, terminated,
                     onmessage, onerror, returnValues, calls, channel>>
      /\ UNCHANGED <<poolVars, wpVars, substituted>>

\* ------------------------------------------------------------------- Init
\* The README pooled worker with k idle connections in dbPool and no query
\* under way: k = 0 after `let dbPool = []`, k > 0 after k runQuery calls
\* that were under way together have all released their connections.
IdlePool(k) ==
    /\ dbPool = [i \in 1..k |-> i]
    /\ nDb = k
    /\ dbRows = [i \in 1..k |-> {}]
    /\ closed = {}
    /\ queries = <<>>

\* new Worker('./worker.js'), as createWorker pushes it: `busy` is not set
WP_createWorker ==
    [busy |-> "undefined", onmessage |-> 0, inbox |-> <<>>, outbox |-> <<>>]

\* Everything but the README pooled worker.
InitApp ==
    /\ host \in [Worker : BOOLEAN, initOK : BOOLEAN]
    /\ modulePc = "loading"
    /\ publicAPI = "empty"
    /\ errors = {}
    /\ workers = [n \in Names |-> 0]
    /\ nCreated = 0
    /\ terminated = {}
    /\ onmessage = [n \in Names |-> NoHandler]
    /\ onerror = [n \in Names |-> NoHandler]
    /\ returnValues = {}
    /\ instance = [n \in Names |-> 0]
    /\ nOpened = [n \in Names |-> 0]
    /\ inbox = [n \in Names |-> <<>>]
    /\ tasks = [n \in Names |-> {}]
    /\ outbox = [n \in Names |-> <<>>]
    /\ handled = {}
    /\ channel = <<>>
    /\ calls = <<>>
    /\ wpWorkers = [i \in 1..WORKER_COUNT |-> WP_createWorker]
    /\ wpQueries = <<>>
    /\ substituted = NoSubstitution

Init ==
    /\ InitApp
    /\ IdlePool(0)

\* ------------------------------------- the handler-swapping main side (H)
\* The caller reaches the api through the default export.
H_CanCall ==
    /\ modulePc = "loaded"
    /\ publicAPI = "api"
    /\ Len(calls) < MaxCalls

\* A variant of initalizeWorker (below) that registers the new worker over
\* the one already registered; C16_RegistryKeepsItsWorkers tells the two apart.
H_initalizeWorker_Overwrite(name) ==
    /\ nCreated' = nCreated + 1
    /\ workers' = [workers EXCEPT ![name] = nCreated + 1]
    /\ IF workers[name] # 0
       THEN /\ errors' = errors \cup {"InstantiationError: already taken"}
            /\ terminated' = terminated \cup {workers[name]}
       ELSE UNCHANGED <<errors, terminated>>

\* function initalizeWorker(name): a Worker is constructed in either case
H_initalizeWorker(name) ==
    /\ nCreated' = nCreated + 1
    /\ IF workers[name] # 0
       THEN /\ errors' = errors \cup {"InstantiationError: already taken"}
            /\ terminated' = terminated \cup {nCreated + 1}
            /\ UNCHANGED workers
       ELSE /\ workers' = [workers EXCEPT ![name] = nCreated + 1]
            /\ UNCHANGED <<errors, terminated>>

\* api.createDB(name = 'default')
H_createDB(name) ==
    /\ H_CanCall
    /\ LET c == Len(calls) + 1 IN
       /\ H_initalizeWorker(name)
       /\ onmessage' = [onmessage EXCEPT ![name] = [kind |-> "created", call |-> c]]
       /\ onerror' = [onerror EXCEPT ![name] = [kind |-> "reject", call |-> c]]
       /\ inbox' = [inbox EXCEPT ![name] = Append(@, Msg("createDB", name, NoText, c))]
       /\ calls' = Append(calls, Call("createDB", name, NoText, NoFile, "pending",
                                      NoValue, 1, workers[name] = 0))
    /\ UNCHANGED <<host, modulePc, publicAPI, returnValues, channel>>
    /\ UNCHANGED <<instance, nOpened, tasks, outbox, handled>>
    /\ UNCHANGED <<poolVars, wpVars, substituted>>

\* api.executeQuery({ sql, values }): this.getWorker() is the 'default' worker;
\* when there is none, worker.onmessage = ... throws inside the executor and
\* the promise is rejected with that TypeError.
H_executeQuery(sql, values) ==
    /\ H_CanCall
    /\ LET c == Len(calls) + 1
           text == replacePlaceholders(sql, values)
       IN  IF workers["default"] # 0
           THEN /\ onmessage' = [onmessage EXCEPT !["default"] = [kind |-> "json", call |-> c]]
                /\ onerror' = [onerror EXCEPT !["default"] = [kind |-> "reject", call |-> c]]
                /\ inbox' = [inbox EXCEPT !["default"] =
                               Append(@, Msg("executeQuery", "", text, c))]
                /\ calls' = Append(calls, Call("executeQuery", "default", text, NoFile,
                                               "pending", NoValue, 1, FALSE))
           ELSE /\ calls' = Append(calls, Call("executeQuery", "default", sql, NoFile,
                                               "rejected", [NoValue EXCEPT !.kind = "TypeError"],
                                               0, FALSE))
                /\ UNCHANGED <<onmessage, onerror, inbox>>
    /\ UNCHANGED <<host, modulePc, publicAPI, errors, workers, nCreated, terminated,
                   returnValues, channel>>
    /\ UNCHANGED <<instance, nOpened, tasks, outbox, handled>>
    /\ UNCHANGED <<poolVars, wpVars, substituted>>

\* api.downloadDB(name = 'default')
H_downloadDB(name) ==
    /\ H_CanCall
    /\ LET c == Len(calls) + 1 IN
       IF workers[name] # 0
       THEN /\ onmessage' = [onmessage EXCEPT ![name] = [kind |-> "download", call |-> c]]
            /\ inbox' = [inbox EXCEPT ![name] = Append(@, Msg("downloadDB", "", NoText, c))]
            /\ calls' = Append(calls, Call("downloadDB", name, NoText, NoFile, "returned",
                                           NoValue, 1, FALSE))
       ELSE /\ calls' = Append(calls, Call("downloadDB", name, NoText, NoFile, "returned",
                                           NoValue, 0, FALSE))
            /\ UNCHANGED <<onmessage, inbox>>
    /\ UNCHANGED <<host, modulePc, publicAPI, errors, workers, nCreated, terminated,
                   onerror, returnValues, channel>>
    /\ UNCHANGED <<instance, nOpened, tasks, outbox, handled>>
    /\ UNCHANGED <<poolVars, wpVars, substituted>>

\* let [name, extension] = fileName.split(".")
SplitName(file) == file[1]
SplitExtension(file) == IF Len(file) >= 2 THEN file[2] ELSE "undefined"

\* api.uploadDB(fileName, arrayBuffer): `worker` is read from the registry
\* before initalizeWorker(name) runs and is not read again, so inside
\* if (!worker) the call worker.postMessage(...) is made on undefined.
H_uploadDB(file) ==
    /\ H_CanCall
    /\ LET c == Len(calls) + 1
           name == SplitName(file)
           worker == workers[name]
       IN  IF SplitExtension(file) = "sqlite3"
           THEN IF worker = 0
                THEN /\ H_initalizeWorker(name)
                     /\ IF worker # 0
                        THEN /\ inbox' = [inbox EXCEPT ![name] =
                                            Append(@, Msg("uploadDB", name, NoText, c))]
                             /\ calls' = Append(calls, Call("uploadDB", name, NoText, file,
                                                            "returned", NoValue, 1, TRUE))
                        ELSE /\ calls' = Append(calls, Call("uploadDB", name, NoText, file,
                                                  "threw", [NoValue EXCEPT !.kind = "TypeError"],
                                                  0, TRUE))
                             /\ UNCHANGED inbox
                ELSE /\ calls' = Append(calls, Call("uploadDB", name, NoText, file,
                                                    "returned", NoValue, 0, FALSE))
                     /\ UNCHANGED <<inbox, workers, nCreated, terminated, errors>>
           ELSE /\ errors' = errors \cup {"unsupported file type"}
                /\ calls' = Append(calls, Call("uploadDB", name, NoText, file,
                                               "returned", NoValue, 0, FALSE))
                /\ UNCHANGED <<inbox, workers, nCreated, terminated>>
    /\ UNCHANGED <<host, modulePc, publicAPI, onmessage, onerror, returnValues, channel>>
    /\ UNCHANGED <<instance, nOpened, tasks, outbox, handled>>
    /\ UNCHANGED <<poolVars, wpVars, substituted>>

\* resolve(value) of the promise of call c; settling a settled promise does nothing
Resolve(c, v) ==
    IF calls[c].state = "pending"
    THEN [calls EXCEPT ![c].state = "resolved", ![c].value = v]
    ELSE calls

\* A message of worker n reaches the main side: the handler that is installed
\* on the worker at that moment runs.
H_Deliver(n) ==
    /\ outbox[n] # <<>>
    /\ LET data == Head(outbox[n])
           h == onmessage[n]
       IN  /\ outbox' = [outbox EXCEPT ![n] = Tail(@)]
           /\ CASE h.kind = "created" /\ data.type = "created" ->
                    /\ calls' = Resolve(h.call, [kind |-> "message", sql |-> NoText, req |-> data.req])
                    /\ UNCHANGED channel
                [] h.kind = "json" /\ data.type = "application/json" ->
                    /\ calls' = Resolve(h.call, [kind |-> "rows", sql |-> data.result, req |-> data.req])
                    /\ UNCHANGED channel
                [] h.kind = "download" /\ data.type = "application/vnd.sqlite3" ->
                    /\ channel' = Append(channel, data)
                    /\ UNCHANGED calls
                [] OTHER ->
                    UNCHANGED <<calls, channel>>
    /\ UNCHANGED <<host, modulePc, publicAPI, errors, workers, nCreated, terminated,
                   onmessage, onerror, returnValues>>
    /\ UNCHANGED <<instance, nOpened, inbox, tasks, handled>>
    /\ UNCHANGED <<poolVars, wpVars, substituted>>

vars == <<host, modulePc, publicAPI, errors, workers, nCreated, terminated, onmessage,
          onerror, returnValues, instance, nOpened, inbox, tasks, outbox, handled,
          channel, calls, dbPool, nDb, dbRows, closed, queries, wpWorkers, wpQueries,
          substituted>>

NextH ==
    \/ ModuleInit
    \/ \E n \in Names : H_createDB(n)
    \/ \E s \in Texts, v \in ValueLists : H_executeQuery(s, v)
    \/ \E n \in Names : H_downloadDB(n)
    \/ \E f \in FileNames : H_uploadDB(f)
    \/ \E n \in Names : WorkerReceive(n)
    \/ \E n \in Names : WorkerFinish(n)
    \/ \E n \in Names : H_Deliver(n)

SpecH == Init /\ [][NextH]_vars

\* FairSpecH: the event loops run every task that is queued (a posted message
\* is handled, a delivered message runs the installed handler) and the
\* library's promise in createDatabase/uploadDatabase settles. Nothing obliges
\* the application to make another API call.
FairSpecH ==
    /\ SpecH
    /\ \A n \in Names : WF_vars(WorkerReceive(n))
    /\ \A n \in Names : WF_vars(WorkerFinish(n))
    /\ \A n \in Names : WF_vars(H_Deliver(n))

\* --------------------------------------- the timestamp-keyed main side (T)
\* The api object is reached through the default export; executeQuery and
\* executeQuerySync are named exports of the module.
T_CanCallApi ==
    /\ modulePc = "loaded"
    /\ publicAPI = "api"
    /\ Len(calls) < MaxCalls

T_CanCallExport ==
    /\ modulePc = "loaded"
    /\ Len(calls) < MaxCalls

\* function initalizeWorker(name): the new worker gets the module's one
\* onmessage handler (T_onmessage) before the registry is looked at.
T_initalizeWorker(name) ==
    /\ nCreated' = nCreated + 1
    /\ IF workers[name] # 0
       THEN /\ errors' = errors \cup {"InstantiationError: already taken"}
            /\ terminated' = terminated \cup {nCreated + 1}
            /\ UNCHANGED workers
       ELSE /\ workers' = [workers EXCEPT ![name] = nCreated + 1]
            /\ UNCHANGED <<errors, terminated>>

\* api.createDB: an async function that posts and returns (resolves with undefined)
T_createDB(name) ==
    /\ T_CanCallApi
    /\ LET c == Len(calls) + 1 IN
       /\ T_initalizeWorker(name)
       /\ inbox' = [inbox EXCEPT ![name] = Append(@, Msg("createDB", name, NoText, c))]
       /\ calls' = Append(calls, Call("createDB", name, NoText, NoFile, "resolved",
                                      [NoValue EXCEPT !.kind = "undefined"], 1, workers[name] = 0))
    /\ UNCHANGED <<host, modulePc, publicAPI, onmessage, onerror, returnValues, channel>>
    /\ UNCHANGED <<instance, nOpened, tasks, outbox, handled>>
    /\ UNCHANGED <<poolVars, wpVars, substituted>>

\* api.downloadDB(name)
T_downloadDB(name) ==
    /\ T_CanCallApi
    /\ LET c == Len(calls) + 1 IN
       IF workers[name] # 0
       THEN /\ inbox' = [inbox EXCEPT ![name] = Append(@, Msg("downloadDB", "", NoText, c))]
            /\ calls' = Append(calls, Call("downloadDB", name, NoText, NoFile, "returned",
                                           NoValue, 1, FALSE))
       ELSE /\ calls' = Append(calls, Call("downloadDB", name, NoText, NoFile, "returned",
                                           NoValue, 0, FALSE))
            /\ UNCHANGED inbox
    /\ UNCHANGED <<host, modulePc, publicAPI, errors, workers, nCreated, terminated,
                   onmessage, onerror, returnValues, channel>>
    /\ UNCHANGED <<instance, nOpened, tasks, outbox, handled>>
    /\ UNCHANGED <<poolVars, wpVars, substituted>>

\* api.uploadDB(fileName, arrayBuffer): `worker = workers[name]` assigns to an
\* identifier the module never declares; module code is strict, so the
\* assignment throws a ReferenceError before initalizeWorker is reached.
T_uploadDB(file) ==
    /\ T_CanCallApi
    /\ LET name == SplitName(file) IN
       IF SplitExtension(file) = "sqlite3"
       THEN /\ "worker" \notin T_ModuleScope
            /\ calls' = Append(calls, Call("uploadDB", name, NoText, file, "threw",
                                           [NoValue EXCEPT !.kind = "ReferenceError"], 0, FALSE))
            /\ UNCHANGED errors
       ELSE /\ errors' = errors \cup {"unsupported file type"}
            /\ calls' = Append(calls, Call("uploadDB", name, NoText, file, "returned",
                                           NoValue, 0, FALSE))
    /\ UNCHANGED <<host, modulePc, publicAPI, workers, nCreated, terminated,
                   onmessage, onerror, returnValues, channel>>
    /\ UNCHANGED workerVars
    /\ UNCHANGED <<poolVars, wpVars, substituted>>

\* export async function executeQuery({ text, values }): after the placeholder
\* loop comes `await getWorker()`. getWorker is a property of api, not an
\* identifier of the module, so the call throws a ReferenceError and the
\* promise is rejected; the lines after it (Date.now(), postMessage, the
\* polling of returnValues) are never reached.
T_executeQuery(text, values) ==
    /\ T_CanCallExport
    /\ "getWorker" \notin T_ModuleScope
    /\ calls' = Append(calls, Call("executeQuery", "", replacePlaceholders(text, values),
                                   NoFile, "rejected",
                                   [NoValue EXCEPT !.kind = "ReferenceError"], 0, FALSE))
    /\ UNCHANGED <<host, modulePc, publicAPI, errors, workers, nCreated, terminated,
                   onmessage, onerror, returnValues, channel>>
    /\ UNCHANGED workerVars
    /\ UNCHANGED <<poolVars, wpVars, substituted>>

\* if (values && queryString.indexOf("$") === -1) values.forEach(replacePlaceholder)
T_replacePlaceholdersSync(sql, values) ==
    IF values.present /\ ~Contains(sql, <<"$">>)
    THEN ReplaceFrom(sql, values.items, 1)
    ELSE sql

\* export async function executeQuerySync({ text, values }): `await getWorker()`
\* throws here as well, before anything is posted.
T_executeQuerySync(text, values) ==
    /\ T_CanCallExport
    /\ "getWorker" \notin T_ModuleScope
    /\ calls' = Append(calls, Call("executeQuerySync", "", T_replacePlaceholdersSync(text, values),
                                   NoFile, "rejected",
                                   [NoValue EXCEPT !.kind = "ReferenceError"], 0, FALSE))
    /\ UNCHANGED <<host, modulePc, publicAPI, errors, workers, nCreated, terminated,
                   onmessage, onerror, returnValues, channel>>
    /\ UNCHANGED workerVars
    /\ UNCHANGED <<poolVars, wpVars, substituted>>

\* worker.onmessage as installed by initalizeWorker: a message of worker n
\* reaches the main side.
T_onmessage(n) ==
    /\ outbox[n] # <<>>
    /\ LET data == Head(outbox[n]) IN
       /\ outbox' = [outbox EXCEPT ![n] = Tail(@)]
       /\ CASE data.type = "application/vnd.sqlite3" ->
                /\ channel' = Append(channel, data)
                /\ UNCHANGED returnValues
            [] data.type = "application/json" ->
                /\ returnValues' = {r \in returnValues : r.timestamp # data.req}
                                     \cup {[timestamp |-> data.req, result |-> data.result]}
                /\ UNCHANGED channel
            [] OTHER ->
                UNCHANGED <<returnValues, channel>>
    /\ UNCHANGED <<host, modulePc, publicAPI, errors, workers, nCreated, terminated,
                   onmessage, onerror, calls>>
    /\ UNCHANGED <<instance, nOpened, inbox, tasks, handled>>
    /\ UNCHANGED <<poolVars, wpVars, substituted>>

\* No worker ever posts to this main side (T_NoReplyInFlight below), so
\* T_onmessage is no step of NextT; NextTAll adds it and reaches the same states.
NextT ==
    \/ ModuleInit
    \/ \E n \in Names : T_createDB(n)
    \/ \E n \in Names : T_downloadDB(n)
    \/ \E f \in FileNames : T_uploadDB(f)
    \/ \E s \in Texts, v \in ValueLists : T_executeQuery(s, v)
    \/ \E s \in Texts, v \in ValueLists : T_executeQuerySync(s, v)
    \/ \E n \in Names : WorkerReceive(n)
    \/ \E n \in Names : WorkerFinish(n)

NextTAll ==
    \/ NextT
    \/ \E n \in Names : T_onmessage(n)

SpecT == Init /\ [][NextT]_vars

SpecTAll == Init /\ [][NextTAll]_vars

T_NoReplyInFlight ==
    \A n \in Names : outbox[n] = <<>>

\* (SpecT, SpecTAll) so returnValues never gets an entry
T_ReturnValuesEmpty ==
    returnValues = {}

\* ------------------------------------------------ the worker on its own (W)
\* The messages a page can post to a worker running sqliteWorker.js: the four
\* actions of the switch and one it has no case for.
W_Actions == {"createDB", "uploadDB", "downloadDB", "executeQuery", "exec"}

\* A message event: some page posts { action, ... } to worker n. `calls`
\* numbers the messages.
W_post(n, action) ==
    /\ Len(calls) < MaxCalls
    /\ LET c == Len(calls) + 1 IN
       /\ inbox' = [inbox EXCEPT ![n] = Append(@, Msg(action, n, <<"a">>, c))]
       /\ calls' = Append(calls, Call(action, n, <<"a">>, NoFile, "returned", NoValue, 1, FALSE))
    /\ UNCHANGED <<host, modulePc, publicAPI, errors, workers, nCreated, terminated,
                   onmessage, onerror, returnValues, channel>>
    /\ UNCHANGED <<instance, nOpened, tasks, outbox, handled>>
    /\ UNCHANGED <<poolVars, wpVars, substituted>>

NextW ==
    \/ \E n \in Names, a \in W_Actions : W_post(n, a)
    \/ \E n \in Names : WorkerReceive(n)
    \/ \E n \in Names : WorkerFinish(n)

InitW ==
    /\ Init
    /\ host = [Worker |-> TRUE, initOK |-> TRUE]

SpecW == InitW /\ [][NextW]_vars

\* ------------------------------------- placeholder substitution alone (R)
\* The statements: every text of at most MaxLen of these characters.
R_Alphabet == {"$", "1", "2", "0", "a"}

R_Texts == UNION {[1..k -> R_Alphabet] : k \in 0..MaxLen}

\* The values: none (the property is undefined), one value, or two of which
\* the first reads like a placeholder.
R_ValueLists ==
    { [present |-> FALSE, items |-> <<>>],
      [present |-> TRUE, items |-> << <<"v">> >>],
      [present |-> TRUE, items |-> << <<"$", "2">>, <<"w">> >>] }

\* The first statements of executeQuery (both drafts have the same text) and
\* of executeQuerySync, applied to one statement and its values, once.
R_substitute(text, values) ==
    /\ ~substituted.done
    /\ substituted' = [done |-> TRUE, text |-> text, values |-> values,
                       query |-> replacePlaceholders(text, values),
                       sync |-> T_replacePlaceholdersSync(text, values)]
    /\ UNCHANGED <<mainVars, workerVars, poolVars, wpVars>>

NextR ==
    \E text \in R_Texts, values \in R_ValueLists : R_substitute(text, values)

InitR ==
    /\ Init
    /\ host = [Worker |-> TRUE, initOK |-> TRUE]

SpecR == InitR /\ [][NextR]_vars

\* ------------------------------------------- the README pooled worker (P)
\* self.onmessage handles each 'runQuery' message with an async runQuery that
\* is suspended at its awaits, where the handlers of other messages run.
QueryKinds == {"insert", "select", "bad"}

\* dbPool.pop(): the element returned (undefined, here 0, for an empty array)
\* and the array left
Last(q) == IF q = <<>> THEN 0 ELSE q[Len(q)]

\* A variant of Front (below): a pop that leaves the element in the array;
\* C23_ConnectionNotShared tells the two apart.
Front_Keep(q) == q

Front(q) == SubSeq(q, 1, Len(q) - 1)

Finished(i) == queries[i].pc \in {"done", "failed"}

\* getDbConnection up to its await: does it call createDbInstance
\* (dbPool.length < MAX_POOL_SIZE)
P_mustCreate(pool) ==
    Len(pool) < MAX_POOL_SIZE

\* onmessage -> runQuery -> getDbConnection, up to the first await that waits
\* for the library. `before`, `poolAtGet`, `poolAtResume` (the length of dbPool
\* as createDbInstance resolved) and `released` are history.
P_runQuery(kind) ==
    /\ Len(queries) < MaxQueries
    /\ LET q == [kind |-> kind, db |-> 0, result |-> {},
                 before |-> {j \in 1..Len(queries) : Finished(j)},
                 poolAtGet |-> Len(dbPool), poolAtResume |-> 0, released |-> FALSE]
       IN  IF P_mustCreate(dbPool)
           THEN /\ queries' = Append(queries, q @@ [pc |-> "creating", created |-> TRUE])
                /\ UNCHANGED dbPool
           ELSE /\ queries' = Append(queries, [q EXCEPT !.db = Last(dbPool)]
                                                @@ [pc |-> "prepare", created |-> FALSE])
                /\ dbPool' = Front(dbPool)
    /\ UNCHANGED <<nDb, dbRows, closed>>
    /\ UNCHANGED <<mainVars, workerVars, wpVars, substituted>>

\* createDbInstance resolves with a new, empty in-memory database;
\* dbPool.push(db); return dbPool.pop()
P_getDbConnection(i) ==
    /\ queries[i].pc = "creating"
    /\ LET db == nDb + 1
           pushed == Append(dbPool, db)
       IN  /\ nDb' = db
           /\ dbRows' = Append(dbRows, {})
           /\ queries' = [queries EXCEPT ![i].db = Last(pushed), ![i].pc = "prepare",
                                         ![i].poolAtResume = Len(dbPool)]
           /\ dbPool' = Front(pushed)
    /\ UNCHANGED closed
    /\ UNCHANGED <<mainVars, workerVars, wpVars, substituted>>

\* const stmt = await db.prepare(query): a statement the library refuses throws
P_prepare(i) ==
    /\ queries[i].pc = "prepare"
    /\ queries' = [queries EXCEPT ![i].pc = IF queries[i].kind = "bad" THEN "failed" ELSE "exec"]
    /\ UNCHANGED <<dbPool, nDb, dbRows, closed>>
    /\ UNCHANGED <<mainVars, workerVars, wpVars, substituted>>

\* A variant of releaseDbConnection (below) without the test of dbPool.length;
\* C11_PoolAtMostMax tells the two apart.
P_releaseDbConnection_AlwaysPush(pool, db) ==
    [pool |-> Append(pool, db), closed |-> closed]

\* function releaseDbConnection(db): the pool and the closed set after it
P_releaseDbConnection(pool, db) ==
    IF Len(pool) < MAX_POOL_SIZE
    THEN [pool |-> Append(pool, db), closed |-> closed]
    ELSE [pool |-> pool, closed |-> closed \cup {db}]

\* const result = await stmt.all(...params); releaseDbConnection(db); return result
P_all(i) ==
    /\ queries[i].pc = "exec"
    /\ LET db == queries[i].db
           rel == P_releaseDbConnection(dbPool, db)
       IN  /\ dbRows' = IF queries[i].kind = "insert"
                        THEN [dbRows EXCEPT ![db] = @ \cup {i}]
                        ELSE dbRows
           /\ queries' = [queries EXCEPT ![i].pc = "done", ![i].released = TRUE,
                                         ![i].result = IF queries[i].kind = "select"
                                                       THEN dbRows[db] ELSE {}]
           /\ dbPool' = rel.pool
           /\ closed' = rel.closed
    /\ UNCHANGED nDb
    /\ UNCHANGED <<mainVars, workerVars, wpVars, substituted>>

NextP ==
    \/ \E k \in QueryKinds : P_runQuery(k)
    \/ \E i \in 1..Len(queries) : P_getDbConnection(i)
    \/ \E i \in 1..Len(queries) : P_prepare(i)
    \/ \E i \in 1..Len(queries) : P_all(i)

\* The README worker does not import the main-side module.
InitP ==
    /\ Init
    /\ host = [Worker |-> TRUE, initOK |-> TRUE]

SpecP == InitP /\ [][NextP]_vars

\* The same worker taken up when dbPool is full or one short of it (SpecP
\* starts it with the empty pool).
InitPWarm ==
    /\ InitApp
    /\ host = [Worker |-> TRUE, initOK |-> TRUE]
    /\ \E k \in (MAX_POOL_SIZE - 1)..MAX_POOL_SIZE : IdlePool(k)

SpecPWarm == InitPWarm /\ [][NextP]_vars

\* --------------------------------------------- the README worker pool (WP)
\* !worker.busy: a worker createWorker has just made has no `busy` property
WP_Idle(worker) ==
    worker.busy # "true"

\* workers.find(worker => !worker.busy): the index of the first worker that is
\* not busy, 0 when find returns undefined
WP_find(ws) ==
    IF \E i \in 1..Len(ws) : WP_Idle(ws[i])
    THEN CHOOSE i \in 1..Len(ws) : WP_Idle(ws[i]) /\ \A j \in 1..(i - 1) : ~WP_Idle(ws[j])
    ELSE 0

\* A variant of getWorker (below) that never looks for an idle worker;
\* C14_PoolGrowsOnlyWhenAllBusy tells the two apart.
WP_getWorker_AlwaysCreate(ws) ==
    [workers |-> Append(ws, WP_createWorker), worker |-> Len(ws) + 1]

\* function getWorker(): the array `workers` after the call and the index of
\* the worker returned. The worker createWorker returns is not marked busy.
WP_getWorker(ws) ==
    LET i == WP_find(ws) IN
    IF i = 0
    THEN [workers |-> Append(ws, WP_createWorker), worker |-> Len(ws) + 1]
    ELSE [workers |-> [ws EXCEPT ![i].busy = "true"], worker |-> i]

\* function releaseWorker(worker)
WP_releaseWorker(ws, i) ==
    [ws EXCEPT ![i].busy = "false"]

\* async function executeQuery(query, params): the handler installed on the
\* worker is the closure of this call. `busyAtGet` is history: the worker's
\* `busy` as getWorker returned it.
WP_executeQuery ==
    /\ Len(wpQueries) < MaxJobs
    /\ LET q == Len(wpQueries) + 1
           g == WP_getWorker(wpWorkers)
       IN  /\ wpWorkers' = [g.workers EXCEPT ![g.worker].onmessage = q,
                                              ![g.worker].inbox = Append(@, q)]
           /\ wpQueries' = Append(wpQueries,
                                  [worker |-> g.worker, state |-> "pending", value |-> 0,
                                   busyAtGet |-> g.workers[g.worker].busy])
    /\ UNCHANGED <<mainVars, workerVars, poolVars, substituted>>

\* worker.js, self.onmessage: runQuery, then self.postMessage(result); when
\* runQuery throws nothing is posted.
WP_WorkerRun(i) ==
    /\ wpWorkers[i].inbox # <<>>
    /\ \E ok \in BOOLEAN :
         wpWorkers' = [wpWorkers EXCEPT
                         ![i].inbox = Tail(@),
                         ![i].outbox = IF ok THEN Append(@, Head(wpWorkers[i].inbox)) ELSE @]
    /\ UNCHANGED wpQueries
    /\ UNCHANGED <<mainVars, workerVars, poolVars, substituted>>

\* worker.onmessage = (event) => { resolve(event.data); releaseWorker(worker) }:
\* the closure installed last on worker i receives the worker's next message.
WP_onmessage(i) ==
    /\ wpWorkers[i].outbox # <<>>
    /\ LET q == wpWorkers[i].onmessage
           data == Head(wpWorkers[i].outbox)
       IN  /\ wpQueries' = IF wpQueries[q].state = "pending"
                            THEN [wpQueries EXCEPT ![q].state = "resolved", ![q].value = data]
                            ELSE wpQueries
           /\ wpWorkers' = [WP_releaseWorker(wpWorkers, i) EXCEPT ![i].outbox = Tail(@)]
    /\ UNCHANGED <<mainVars, workerVars, poolVars, substituted>>

NextWP ==
    \/ WP_executeQuery
    \/ \E i \in 1..Len(wpWorkers) : WP_WorkerRun(i)
    \/ \E i \in 1..Len(wpWorkers) : WP_onmessage(i)

\* The README worker pool does not import the main-side module.
InitWP ==
    /\ Init
    /\ host = [Worker |-> TRUE, initOK |-> TRUE]

SpecWP == InitWP /\ [][NextWP]_vars

\* ================================================================ claims
IsCall(c) == c \in 1..Len(calls)

Settled(c) == IsCall(c) /\ calls[c].state \in {"resolved", "rejected"}

Resolved(c) == IsCall(c) /\ calls[c].state = "resolved"

\* the worker replied to the request of call c
Replied(c) ==
    [call |-> c, action |-> "executeQuery", outcome |-> "replied"] \in handled

\* a message the worker posted for call c is still on its way to the main side
InFlight(c) ==
    \E n \in Names : \E i \in 1..Len(outbox[n]) : outbox[n][i].req = c

\* every call made after call c is an executeQuery call
OnlyQueriesAfter(c) ==
    \A d \in (c + 1)..Len(calls) : calls[d].op = "executeQuery"

\* C1 (SpecH): among executeQuery calls outstanding together on the 'default'
\* worker, a call that resolves resolves with the result of its own statement,
\* and a call whose reply the worker posted and the main side received is
\* resolved (it is not left pending because a later executeQuery replaced the
\* worker's message handler).
C1_EachQueryItsOwnResult ==
    \A c \in 1..Len(calls) :
      (calls[c].op = "executeQuery" /\ OnlyQueriesAfter(c)) =>
        /\ calls[c].state = "resolved" => calls[c].value.req = c
        /\ (Replied(c) /\ ~InFlight(c)) => calls[c].state = "resolved"

\* the worker opened the database that createDB call c asked for
Opened(c) ==
    [call |-> c, action |-> "createDB", outcome |-> "opened"] \in handled

\* the worker has finished handling the request of call c
Handled(c) ==
    \E h \in handled : h.call = c

\* C2 (SpecH): a createDB call on a name that was not registered is resolved
\* once the worker has opened the database and everything that worker posted
\* has reached the main side.
C2_CreateDBResolved ==
    \A c \in 1..Len(calls) :
      (calls[c].op = "createDB" /\ ~calls[c].taken /\ Opened(c)
         /\ outbox[calls[c].name] = <<>>) =>
        calls[c].state = "resolved"

\* C2 as a liveness property (FairSpecH): such a call eventually resolves.
C2_CreateDBEventuallyResolves ==
    \A c \in 1..MaxCalls :
      []((IsCall(c) /\ calls[c].op = "createDB" /\ ~calls[c].taken /\ Opened(c))
           => <>Resolved(c))

\* C3 (SpecH): an executeQuery call is settled, resolved or rejected, once the
\* worker has finished handling its request and everything the worker posted
\* has reached the main side.
C3_QuerySettled ==
    \A c \in 1..Len(calls) :
      (calls[c].op = "executeQuery" /\ Handled(c) /\ outbox["default"] = <<>>) =>
        Settled(c)

\* C3 as a liveness property (FairSpecH): every executeQuery call eventually
\* settles.
C3_QueryEventuallySettles ==
    \A c \in 1..MaxCalls :
      []((IsCall(c) /\ calls[c].op = "executeQuery") => <>Settled(c))

\* C4 (SpecT): an executeQuery call of the timestamp-keyed correlator ends
\* resolved with the reply to its own request, and no two calls resolve with
\* the same reply.
C4_ResolvesWithOwnReply ==
    /\ \A c \in 1..Len(calls) :
         (calls[c].op = "executeQuery" /\ calls[c].state # "pending") =>
           (calls[c].state = "resolved" /\ calls[c].value.req = c)
    /\ \A c, d \in 1..Len(calls) :
         (c # d /\ calls[c].op = "executeQuery" /\ calls[d].op = "executeQuery"
            /\ calls[c].state = "resolved" /\ calls[d].state = "resolved") =>
           calls[c].value.req # calls[d].value.req

\* the actions the worker's switch has a case for
DispatchTags == {"createDB", "executeQuery", "uploadDB", "downloadDB"}

\* C5 (SpecT): every message posted to a worker carries an action tag the
\* worker dispatches on, none is handled by the default branch, and every
\* query request (executeQuery, executeQuerySync) is passed to the worker.
C5_EveryRequestDispatched ==
    /\ \A n \in Names : \A i \in 1..Len(inbox[n]) : inbox[n][i].action \in DispatchTags
    /\ \A h \in handled : h.outcome # "logged"
    /\ \A c \in 1..Len(calls) :
         calls[c].op \in {"executeQuery", "executeQuerySync"} => calls[c].posted >= 1

\* C6 (SpecH): uploadDB with a file name <name>.sqlite3 whose name is not
\* registered registers a worker under that name and posts exactly one
\* uploadDB message to it, without throwing.
C6_UploadRegistersAndPosts ==
    \A c \in 1..Len(calls) :
      (calls[c].op = "uploadDB" /\ SplitExtension(calls[c].file) = "sqlite3"
         /\ ~calls[c].taken) =>
        (calls[c].registered /\ calls[c].posted = 1 /\ calls[c].state # "threw")

\* the reply to downloadDB call c was forwarded on the download channel
Forwarded(c) ==
    \E i \in 1..Len(channel) : channel[i].req = c

\* C7 (SpecH): after downloadDB on a registered worker that holds a database,
\* once the worker has handled the request and everything it posted has
\* reached the main side, its reply (the exported Blob or the SQLITE_NOMEM
\* object) has been forwarded on the download channel.
C7_DownloadForwarded ==
    \A c \in 1..Len(calls) :
      (calls[c].op = "downloadDB" /\ calls[c].taken /\ calls[c].hasDb
         /\ Handled(c) /\ outbox[calls[c].name] = <<>>) =>
        Forwarded(c)

\* C7 as a liveness property (FairSpecH): the reply is eventually forwarded.
C7_DownloadEventuallyForwarded ==
    \A c \in 1..MaxCalls :
      []((IsCall(c) /\ calls[c].op = "downloadDB" /\ calls[c].taken /\ calls[c].hasDb)
           => <>Forwarded(c))

\* C8 (SpecH): importing the module never throws; once the module is loaded
\* the default export is the api exactly when the window has Worker and the
\* library initialization succeeded, and otherwise it is the empty object
\* and an error was printed.
C8_ExportIffReady ==
    /\ modulePc # "threw"
    /\ modulePc = "loading" => publicAPI = "empty"
    /\ modulePc = "loaded" =>
         /\ publicAPI = "api" <=> (host.Worker /\ host.initOK)
         /\ publicAPI # "api" =>
              /\ publicAPI = "empty"
              /\ errors \cap {"no web workers", "Initialization error"} # {}

\* C8 witness: the initialization call failed, the module is loaded with the
\* empty export and the error printed.
C8_Witness ==
    /\ modulePc = "loaded"
    /\ host.Worker /\ ~host.initOK
    /\ publicAPI = "empty"
    /\ "Initialization error" \in errors

\* the runQuery calls up to s were issued one after another, each finished
\* before the next was started
OneAfterAnother(s) ==
    \A j, k \in 1..s : j < k => j \in queries[k].before

\* C9 (SpecP): when runQuery calls are issued one after another, a SELECT
\* returns the rows written by the INSERTs that completed before it.
C9_SelectSeesInserts ==
    \A s \in 1..Len(queries) :
      (queries[s].kind = "select" /\ queries[s].pc = "done" /\ OneAfterAnother(s)) =>
        \A j \in 1..(s - 1) :
          (queries[j].kind = "insert" /\ queries[j].pc = "done") => j \in queries[s].result

\* C10 (SpecP): a getDbConnection call that finds an idle connection in dbPool
\* does not call createDbInstance.
C10_IdleConnectionReused ==
    \A i \in 1..Len(queries) :
      queries[i].poolAtGet > 0 => ~queries[i].created

C12_ConnectionReleased ==
    \A i \in 1..Len(queries) :
      Finished(i) => queries[i].released

\* the executeQuery call q of the worker pool is in flight
WP_InFlight(q) ==
    wpQueries[q].state = "pending"

\* C13 (SpecWP): the worker of every executeQuery call in flight is marked
\* busy, getWorker returned it marked busy, and no two calls in flight have the
\* same worker.
C13_BusyWhileInFlight ==
    /\ \A q \in 1..Len(wpQueries) :
         WP_InFlight(q) =>
           /\ wpQueries[q].busyAtGet = "true"
           /\ wpWorkers[wpQueries[q].worker].busy = "true"
    /\ \A q, r \in 1..Len(wpQueries) :
         (q # r /\ WP_InFlight(q) /\ WP_InFlight(r)) =>
           wpQueries[q].worker # wpQueries[r].worker

WP_AllBusy ==
    \A i \in 1..Len(wpWorkers) : ~WP_Idle(wpWorkers[i])

C15_RejectsAfterTriesRechecks ==
    \A h \in handled :
      (h.action = "getInstance" /\ h.outcome = "reject") => h.rechecks = Tries

\* the names that have a worker in the registry
Registered == {n \in Names : workers[n] # 0}

\* the Worker objects constructed and not terminated
Alive == (1..nCreated) \ terminated

\* C16 (SpecH): the workers that are alive are exactly the workers registered,
\* one per registered name, so there are as many of them as registered names;
\* a registered name keeps its worker; and a step that constructs a worker
\* without registering it (initalizeWorker on a taken name) terminates that
\* worker and prints 'InstantiationError: already taken'.
C16_RegistryKeepsItsWorkers ==
    /\ [](/\ Alive = {workers[n] : n \in Registered}
          /\ Cardinality(Alive) = Cardinality(Registered))
    /\ [][/\ \A n \in Registered : workers'[n] = workers[n]
          /\ (nCreated' # nCreated /\ workers' = workers) =>
                /\ nCreated' = nCreated + 1
                /\ terminated' = terminated \cup {nCreated + 1}
                /\ "InstantiationError: already taken" \in errors']_vars

\* C16 witness: createDB was called again on a registered name; the second
\* worker is terminated and the name still has the first one.
C16_Witness ==
    \E n \in Names :
      /\ workers[n] = 1
      /\ nCreated = 2
      /\ terminated = {2}
      /\ "InstantiationError: already taken" \in errors

\* C17 (SpecH): an executeQuery call followed only by createDB and downloadDB
\* calls is resolved once the worker has posted its reply and the reply has
\* reached the main side.
C17_PendingQuerySurvives ==
    \A c \in 1..Len(calls) :
      (/\ calls[c].op = "executeQuery"
       /\ \A e \in (c + 1)..Len(calls) : calls[e].op \in {"createDB", "downloadDB"}
       /\ Replied(c) /\ ~InFlight(c)) =>
        calls[c].state = "resolved"

\* C18 (SpecH): a createDB call on a name that was registered when it was made
\* printed 'InstantiationError: already taken', posted no message, did not
\* install its handler on the registered worker, and the worker opened no
\* database for it.
C18_TakenNameRefused ==
    \A c \in 1..Len(calls) :
      (calls[c].op = "createDB" /\ calls[c].taken) =>
        /\ "InstantiationError: already taken" \in errors
        /\ calls[c].posted = 0
        /\ onmessage[calls[c].name].call # c
        /\ ~Opened(c)

\* C18 for the timestamp-keyed draft (SpecT), which does not hold either: its
\* createDB posts the message to the registered worker as well.
T_TakenNameRefused ==
    \A c \in 1..Len(calls) :
      (calls[c].op = "createDB" /\ calls[c].taken) => calls[c].posted = 0

\* the step is a call of uploadDB that is refused: the extension is not
\* 'sqlite3', or the name is registered
UploadRefused ==
    /\ Len(calls') = Len(calls) + 1
    /\ calls'[Len(calls')].op = "uploadDB"
    /\ \/ SplitExtension(calls'[Len(calls')].file) # "sqlite3"
       \/ calls'[Len(calls')].taken

\* what a refused uploadDB leaves alone: no worker is constructed or
\* terminated, the registry keeps its entries, no message is posted, and the
\* workers and the handlers installed on them are as before
UploadFrame ==
    /\ UNCHANGED <<workers, nCreated, terminated, inbox>>
    /\ UNCHANGED <<onmessage, onerror, returnValues, channel, publicAPI, modulePc>>
    /\ UNCHANGED workerVars
    /\ calls'[Len(calls')].posted = 0
    /\ IF SplitExtension(calls'[Len(calls')].file) # "sqlite3"
       THEN errors' = errors \cup {"unsupported file type"}
       ELSE errors' = errors

\* C19 (SpecT): a refused uploadDB call returns to its caller and changes
\* nothing but the console, where 'unsupported file type' is printed for an
\* extension other than 'sqlite3'. (The handler-swapping draft, SpecH,
\* satisfies this.)
C19_RefusedUploadChangesNothing ==
    [][UploadRefused => (UploadFrame /\ calls'[Len(calls')].state = "returned")]_vars

\* (SpecT) in the timestamp-keyed draft a refused uploadDB changes nothing
\* either, but it may throw.
T_RefusedUploadFrame ==
    [][UploadRefused => UploadFrame]_vars

\* C20 (SpecW): `instance` is null or a database the worker opened, it changes
\* only when createDatabase/uploadDatabase yielded a database, and a createDB
\* or uploadDB that fails leaves `instance` as it was, prints the error and
\* posts nothing.
C20_FailureKeepsInstance ==
    /\ [](\A n \in Names : instance[n] \in 0..nOpened[n])
    /\ [][\A n \in Names :
            /\ instance'[n] # instance[n] =>
                  (nOpened'[n] = nOpened[n] + 1 /\ instance'[n] = nOpened'[n])
            /\ \A h \in handled' \ handled :
                  (h.outcome = "failed" /\ h.worker = n) =>
                    /\ h.action \in {"createDB", "uploadDB"}
                    /\ instance'[n] = instance[n]
                    /\ outbox' = outbox
                    /\ ("worker: " \o h.action \o " failed") \in errors']_vars

\* C20 witness: an uploadDB failed on a worker that held a database, and the
\* worker holds that database still.
C20_Witness ==
    \E n \in Names : \E h \in handled :
      /\ h.outcome = "failed"
      /\ h.action = "uploadDB"
      /\ h.worker = n
      /\ h.instance # 0
      /\ instance[n] = h.instance
      /\ outbox[n] = <<>>

IsDigit(ch) == ch \in {"0", "1", "2", "3", "4", "5", "6", "7", "8", "9"}

\* the longest run of digits s starts with
RECURSIVE DigitRun(_)
DigitRun(s) ==
    IF s # <<>> /\ IsDigit(Head(s))
    THEN <<Head(s)>> \o DigitRun(Tail(s))
    ELSE <<>>

\* The statement s with every placeholder $i, 1 <= i <= Len(items), replaced
\* by the i-th item in single quotes, in one pass from left to right: a
\* placeholder is "$" with all the digits that follow it, and what an item
\* brought in is not looked at again.
RECURSIVE Substituted(_, _)
Substituted(s, items) ==
    IF s = <<>> THEN <<>>
    ELSE IF Head(s) = "$"
         THEN LET run == DigitRun(Tail(s))
                  hit == {i \in 1..Len(items) : Digits(i) = run}
              IN  IF hit # {}
                  THEN <<"'">> \o items[CHOOSE i \in hit : TRUE] \o <<"'">>
                         \o Substituted(SubSeq(s, Len(run) + 2, Len(s)), items)
                  ELSE <<"$">> \o Substituted(Tail(s), items)
         ELSE <<Head(s)>> \o Substituted(Tail(s), items)

\* C22 (SpecR): for a statement and its values executeQuery and
\* executeQuerySync produce the same text, which is the statement with every
\* occurrence of every placeholder $i replaced by the quoted i-th value (no
\* value substituted again, $1 not taken out of $10), and the statement itself
\* when there are no values.
C22_PlaceholdersSubstituted ==
    substituted.done =>
      LET want == IF substituted.values.present
                  THEN Substituted(substituted.text, substituted.values.items)
                  ELSE substituted.text
      IN  /\ substituted.query = substituted.sync
          /\ substituted.query = want

\* runQuery call i holds the connection getDbConnection returned to it and
\* has not yet ended
P_InUse(i) ==
    queries[i].pc \in {"prepare", "exec"}

\* C23 (SpecPWarm): what getDbConnection returns is a database, never
\* undefined; the connection of a runQuery call that is under way is not in
\* dbPool; and no two calls under way hold the same connection.
C23_ConnectionNotShared ==
    /\ \A i \in 1..Len(queries) :
         queries[i].pc # "creating" => queries[i].db \in 1..nDb
    /\ \A i \in 1..Len(queries) :
         P_InUse(i) => \A k \in 1..Len(dbPool) : dbPool[k] # queries[i].db
    /\ \A i, j \in 1..Len(queries) :
         (i # j /\ P_InUse(i) /\ P_InUse(j)) => queries[i].db # queries[j].db

\* C23 witness: two runQuery calls are under way together, one on a
\* connection popped from the full pool and one on a connection it created,
\* while other connections sit idle in dbPool.
C23_Witness ==
    /\ dbPool # <<>>
    /\ \E i, j \in 1..Len(queries) :
         /\ P_InUse(i) /\ P_InUse(j)
         /\ ~queries[i].created /\ queries[i].poolAtGet = MAX_POOL_SIZE
         /\ queries[j].created

\* ------------------------------------------------------- supporting facts
\* (SpecH) sqliteWorker.js posts neither a 'created' message nor a download
\* reply, so no createDB promise is ever resolved and nothing is forwarded on
\* the download channel.
H_WorkerPostsOnlyQueryResults ==
    \A n \in Names : \A i \in 1..Len(outbox[n]) : outbox[n][i].type = "application/json"

H_CreateDBStaysPending ==
    \A c \in 1..Len(calls) : calls[c].op = "createDB" => calls[c].state = "pending"

H_NothingForwarded ==
    channel = <<>>

\* the worker handled the request of executeQuery call c without a reply
\* (no instance, or the statement threw), the promise is pending, and the
\* handler of c is no longer installed or no reply is on its way to it
Stuck(c) ==
    /\ calls[c].op = "executeQuery"
    /\ calls[c].state = "pending"
    /\ \E h \in handled : h.call = c /\ h.outcome \in {"no instance", "exec threw"}
    /\ onmessage["default"].call # c \/ outbox["default"] = <<>>

\* (SpecH, SpecT, SpecW) checkAgain never sets its timer
W_NoTimerPending ==
    \A n \in Names : \A t \in tasks[n] : t.action # "checkAgain"

\* (SpecT) C16 for the timestamp-keyed draft
T_RegistryKeepsItsWorkers ==
    /\ [](/\ Alive = {workers[n] : n \in Registered}
          /\ Cardinality(Alive) = Cardinality(Registered))
    /\ [][\A n \in Registered : workers'[n] = workers[n]]_vars

\* (SpecH) such a call stays pending whatever happens next
H_StuckStaysStuck ==
    [][\A c \in 1..Len(calls) : Stuck(c) => Stuck(c)']_vars

====
